---- MODULE Spec2Model ----
(***************************************************************************)
(* A model of medi.mate's local vector store (src/vector_store.py):        *)
(* VectorStoreManager keeps one JSON file per namespace, ingests texts and *)
(* prescription chunks with an id-based duplicate check, and answers       *)
(* top-k cosine-similarity queries.  MemoryManager (src/memory.py) and     *)
(* AuthManager (src/auth.py) keep sessions, messages and users in JSON     *)
(* files of their own; each has its own specification below.               *)
(*                                                                         *)
(* Python values are modelled as follows.                                  *)
(*   - An optional string argument (namespace, prescription_id) is a       *)
(*     sequence: <<>> is None, <<s>> is the string s.                      *)
(*   - A metadata dict is a record over the keys the program uses; each    *)
(*     field is <<>> (key absent) or <<v>> (key present with value v), so   *)
(*     dict.get(key) is the field itself.                                  *)
(*   - A float score is the exact fraction [num, den] with den > 0; the    *)
(*     modelled embeddings have integer norms, so IEEE division gives      *)
(*     equal doubles exactly for equal fractions.                          *)
(*   - A JSON file is [state, vectors]: absent, unparseable ("garbage"),   *)
(*     parseable without a "vectors" list ("badshape"), or "ok".           *)
(*   - An isoformat() timestamp is the sequence of the characters in which *)
(*     two timestamps of one minute differ, so that string comparison is   *)
(*     Python's.                                                           *)
(***************************************************************************)
EXTENDS Integers, Sequences, FiniteSets, TLC

\* ------------------------------------------------------------------ bounds
\* The most records the store holds, over all its files.
MaxVectors == 2
\* The longest texts / text_chunks argument.
MaxBatch == 2
\* The largest top_k argument (the smallest is -1).
MaxTopK == 2
\* The most messages messages.json holds.
MaxMessages == 3
\* The largest limit argument of get_history (the smallest is -1).
MaxLimit == 2
\* The largest absolute value of a component of a vector handed to
\* _cosine_similarity directly.
MaxCoord == 4

\* ------------------------------------------------------------ Python values
None == <<>>

Some(s) == <<s>>

\* `if x:` for an optional string: None and "" are falsy.
Truthy(o) == o # None /\ o[1] # ""

EmptyMeta ==
    [prescription_id |-> None, text |-> None, chunk_id |-> None, filename |-> None]

\* ------------------------------------------------------------------ inputs
Texts == {"take 1 tablet daily", "avoid alcohol"}

Queries == {"alcohol warning"}

\* namespace arguments of add_texts
Namespaces == {None, Some("default"), Some("a")}

\* namespace arguments of search
SearchNamespaces == Namespaces \cup {Some("")}

\* prescription ids stored by add_prescription
PrescriptionIds == {"P1"}

\* the prescription_id arguments of search
SearchFilters == {None, Some(""), Some("P1")}

\* A caller's dict that holds the three keys add_prescription sets, and one
\* more.
MetaP2 ==
    [prescription_id |-> Some("P2"), text |-> Some("stale text"),
     chunk_id |-> Some(7), filename |-> Some("rx.pdf")]

Metas == {EmptyMeta, MetaP2}

SeqsUpTo(S, n) == UNION {[1..k -> S] : k \in 0..n}

Batches == SeqsUpTo(Texts, MaxBatch)

\* metadata_list arguments: the first text gets a metadata dict, the others
\* fall back to {}
MetaLists == {<<MetaP2>>}

TopKs == -1..MaxTopK

\* ------------------------------------------------- external collaborators
\* hashlib.md5(text.encode("utf-8")).hexdigest()
Md5(text) ==
    CASE text = "take 1 tablet daily" -> "92d783a7dc0bd937ba1f463fda7268d0"
      [] text = "avoid alcohol" -> "f63f8f7aeb7918ab05d4d194a3ccee99"

\* embeddings.embed_query(text): a fixed embedding table of the deployment.
EmbedQuery(text) ==
    CASE text = "take 1 tablet daily" -> <<3, 4>>
      [] text = "avoid alcohol" -> <<4, 3>>
      [] text = "alcohol warning" -> <<1, 0>>

\* ------------------------------------------------------------------- state
VARIABLES
    embeddings,   \* TRUE iff self.embeddings is not None
    files,        \* the JSON files of storage_dir, by file name
    last,         \* the last call: its arguments and its outcome
    added,        \* history: the (namespace string, id) pairs add_texts stored
    writers,      \* the concurrent writers: where each is in its call
    cosine,       \* a _cosine_similarity call: its arguments and its result
    sessions,     \* MemoryManager: the "sessions" list of sessions.json
    messages,     \* MemoryManager: the "messages" list of messages.json
    mlast,        \* the last MemoryManager call: its arguments and its outcome
    users,        \* AuthManager: the "users" list of users.json
    alast,        \* the last AuthManager call: its arguments and its outcome
    registered    \* history: the (username, password) pairs registered

vars ==
    <<embeddings, files, last, added, writers, cosine, sessions, messages, mlast,
      users, alast, registered>>

authVars == <<users, alast, registered>>

\* what the calls on the store leave alone
nonStore == <<cosine, sessions, messages, mlast, authVars>>

\* what the calls outside the store leave alone
storeVars == <<embeddings, files, last, added, writers>>

\* _get_storage_path
GetStoragePath(namespace) ==
    (IF Truthy(namespace) THEN namespace[1] ELSE "default") \o ".json"

Paths == {GetStoragePath(ns) : ns \in SearchNamespaces}

AbsentFile == [state |-> "absent", vectors |-> <<>>]

\* _load_vectors: what json.load hands back, or {"vectors": []}.
LoadVectors(namespace) ==
    LET f == files[GetStoragePath(namespace)]
    IN  CASE f.state = "absent" -> [shape |-> "ok", vectors |-> <<>>]
          [] f.state = "garbage" -> [shape |-> "ok", vectors |-> <<>>]
          [] f.state = "badshape" -> [shape |-> "bad", vectors |-> <<>>]
          [] f.state = "ok" -> [shape |-> "ok", vectors |-> f.vectors]

\* _save_vectors
SaveVectors(fs, vectors, namespace) ==
    [fs EXCEPT ![GetStoragePath(namespace)] = [state |-> "ok", vectors |-> vectors]]

RECURSIVE SumLen(_, _)
SumLen(fs, ps) ==
    IF ps = {} THEN 0
    ELSE LET p == CHOOSE q \in ps : TRUE
         IN  Len(fs[p].vectors) + SumLen(fs, ps \ {p})

TotalVectors(fs) == SumLen(fs, DOMAIN fs)

Ids(vectors) == {vectors[i].id : i \in 1..Len(vectors)}

\* The guard left out: the calls go on without an embedding capability.
EmbeddingsMissing_Unchecked == FALSE

\* `if not self.embeddings`
EmbeddingsMissing == ~embeddings

NoCall ==
    [op |-> "init", namespace |-> None, texts |-> <<>>, metadata_list |-> <<>>,
     prescription_id |-> None, query |-> "", top_k |-> 0,
     raised |-> "none", ret |-> FALSE, matches |-> <<>>,
     embed_calls |-> <<>>, appended |-> <<>>, caller_metadata |-> <<>>]

Writers == {1, 2}

IdleWriter ==
    [pc |-> "idle", op |-> "init", namespace |-> None, texts |-> <<>>,
     metadata_list |-> <<>>, prescription_id |-> None,
     vectors |-> <<>>, new_vectors |-> <<>>, raised |-> "none", ret |-> FALSE]

\* no AuthManager call under way
NoAuthCall ==
    [op |-> "init", username |-> "", password |-> "", ret |-> FALSE, message |-> ""]

\* AuthManager() on an empty data directory: _ensure_data_file has written
\* users.json with an empty list.
AuthIdle ==
    /\ users = <<>>
    /\ alast = NoAuthCall
    /\ registered = {}

\* no MemoryManager call under way
NoMemoryCall ==
    [op |-> "init", user_id |-> "", prescription_id |-> "", session_id |-> "",
     limit |-> 0, ret |-> None, history |-> <<>>]

\* no _cosine_similarity call under way
NoCosine == [pc |-> "idle", vec1 |-> <<0, 0>>, vec2 |-> <<0, 0>>, score |-> <<>>]

Init ==
    /\ AuthIdle
    /\ cosine = NoCosine
    /\ sessions = <<>>
    /\ messages = <<>>
    /\ mlast = NoMemoryCall
    /\ writers = [w \in Writers |-> IdleWriter]
    /\ embeddings \in BOOLEAN
    /\ files \in {fs \in [Paths -> {AbsentFile,
                                     [state |-> "garbage", vectors |-> <<>>],
                                     [state |-> "badshape", vectors |-> <<>>]}] :
                     Cardinality({p \in Paths : fs[p] # AbsentFile}) <= 1}
    /\ last = NoCall
    /\ added = {}

\* ------------------------------------------------------------- add_texts
\* vector_id = f"{namespace}_{text_hash}" if namespace else text_hash
TextVectorId(namespace, text) ==
    IF Truthy(namespace) THEN namespace[1] \o "_" \o Md5(text) ELSE Md5(text)

\* `if vector_id in existing_ids: continue` of add_texts
SkipText(vector_id, existing_ids) == vector_id \in existing_ids

\* meta = metadata_list[i].copy() if i < len(metadata_list) else {}
\* (i is the 1-based position here)
MetaAt(metadata_list, i) ==
    IF i <= Len(metadata_list) THEN metadata_list[i] ELSE EmptyMeta

\* The state of an ingestion loop: the records built so far, the texts handed
\* to embed_query so far, and whether embed_query raised.  fail_at = k > 0
\* makes the k-th embed_query call of the loop raise; 0 makes none raise.
LoopStart(fail_at) ==
    [new_vectors |-> <<>>, embed_calls |-> <<>>, raised |-> FALSE, fail_at |-> fail_at]

\* One embed_query call inside a loop, then the append of the record.
EmbedAndAppend(acc, vector_id, text, meta) ==
    IF Len(acc.embed_calls) + 1 = acc.fail_at
    THEN [acc EXCEPT !.embed_calls = Append(@, text), !.raised = TRUE]
    ELSE [acc EXCEPT !.embed_calls = Append(@, text),
                     !.new_vectors = Append(@, [id |-> vector_id,
                                                embedding |-> EmbedQuery(text),
                                                metadata |-> meta])]

\* for i, text in enumerate(texts): ...   (existing_ids is never updated)
RECURSIVE AddTextsLoop(_, _, _, _, _, _)
AddTextsLoop(i, texts, metadata_list, namespace, existing_ids, acc) ==
    IF i > Len(texts) \/ acc.raised THEN acc
    ELSE LET text == texts[i]
             vector_id == TextVectorId(namespace, text)
             meta == [MetaAt(metadata_list, i) EXCEPT !.text = Some(text)]
         IN  AddTextsLoop(i + 1, texts, metadata_list, namespace, existing_ids,
                 IF SkipText(vector_id, existing_ids) THEN acc
                 ELSE EmbedAndAppend(acc, vector_id, text, meta))

\* The save moved into the loop: what was embedded before embed_query raised
\* is written.
Persist_PerRecord(fs, vectors, loop, namespace) ==
    SaveVectors(fs, vectors \o loop.new_vectors, namespace)

\* The extend left out: the file is written with the new records only.
Persist_NewOnly(fs, vectors, loop, namespace) ==
    IF loop.raised THEN fs
    ELSE SaveVectors(fs, loop.new_vectors, namespace)

\* data["vectors"].extend(new_vectors); self._save_vectors(data, namespace):
\* reached only when the loop ran to its end.
Persist(fs, vectors, loop, namespace) ==
    IF loop.raised THEN fs
    ELSE SaveVectors(fs, vectors \o loop.new_vectors, namespace)

DoAddTexts(texts, metadata_list, namespace, fail_at) ==
    LET call == [NoCall EXCEPT !.op = "add_texts", !.texts = texts,
                               !.metadata_list = metadata_list,
                               !.namespace = namespace]
        data == LoadVectors(namespace)
        loop == AddTextsLoop(1, texts, metadata_list, namespace, Ids(data.vectors),
                             LoopStart(fail_at))
    IN  IF EmbeddingsMissing
        THEN /\ last' = [call EXCEPT !.ret = FALSE]
             /\ UNCHANGED <<files, added>>
        ELSE IF data.shape = "bad"
        THEN \* data["vectors"] raises KeyError / TypeError
             /\ last' = [call EXCEPT !.raised = "storage"]
             /\ UNCHANGED <<files, added>>
        ELSE /\ files' = Persist(files, data.vectors, loop, namespace)
             /\ last' = [call EXCEPT !.raised = IF loop.raised THEN "embed" ELSE "none",
                                     !.ret = ~loop.raised,
                                     !.embed_calls = loop.embed_calls,
                                     !.appended = IF loop.raised THEN <<>>
                                                  ELSE loop.new_vectors]
             /\ added' = IF loop.raised \/ namespace = None THEN added
                         ELSE added \cup {[namespace |-> namespace[1], id |-> v] :
                                            v \in Ids(loop.new_vectors)}

\* A caller calls add_texts when idle, or calls it again with the arguments of
\* the add_texts call that has just returned.
AddTexts ==
    /\ last.op \in {"init", "add_texts"}
    /\ \E texts \in Batches, metadata_list \in MetaLists, namespace \in Namespaces :
          /\ \/ last.op = "init"
             \/ /\ last.op = "add_texts"
                /\ last.texts = texts
                /\ last.metadata_list = metadata_list
                /\ last.namespace = namespace
          /\ \E fail_at \in {0, Len(texts)} :
                DoAddTexts(texts, metadata_list, namespace, fail_at)
    /\ TotalVectors(files') <= MaxVectors
    /\ UNCHANGED <<embeddings, writers>>
    /\ UNCHANGED nonStore

\* ------------------------------------------------------ add_prescription
\* vector_id = f"{prescription_id}_{i}"   (i is the 0-based index)
ChunkVectorId(prescription_id, i) == prescription_id \o "_" \o ToString(i)

\* The duplicate check left out of add_prescription.
SkipChunk_Never(vector_id, existing_ids) == FALSE

\* `if vector_id in existing_ids: continue` of add_prescription
SkipChunk(vector_id, existing_ids) == vector_id \in existing_ids

\* The three keys set only where the caller's dict has none.
ChunkMetadata_CallerWins(metadata, chunk, i, prescription_id) ==
    [metadata EXCEPT !.text = IF @ = None THEN Some(chunk) ELSE @,
                     !.chunk_id = IF @ = None THEN Some(i) ELSE @,
                     !.prescription_id = IF @ = None THEN Some(prescription_id)
                                         ELSE @]

\* chunk_metadata = metadata.copy(); chunk_metadata.update({...})
ChunkMetadata(metadata, chunk, i, prescription_id) ==
    [metadata EXCEPT !.text = Some(chunk), !.chunk_id = Some(i),
                     !.prescription_id = Some(prescription_id)]

\* The caller's dict after an iteration that built chunk_metadata: the update
\* went to the copy, so the dict is what it was.
CallerMetadataAfter(metadata, chunk_metadata) == metadata

RECURSIVE AddPrescriptionLoop(_, _, _, _, _, _)
AddPrescriptionLoop(i, text_chunks, metadata, prescription_id, existing_ids, acc) ==
    IF i > Len(text_chunks) \/ acc.raised THEN acc
    ELSE LET chunk == text_chunks[i]
             vector_id == ChunkVectorId(prescription_id, i - 1)
         IN  AddPrescriptionLoop(i + 1, text_chunks, metadata, prescription_id,
                 existing_ids,
                 IF SkipChunk(vector_id, existing_ids) THEN acc
                 ELSE EmbedAndAppend(acc, vector_id, chunk,
                          ChunkMetadata(metadata, chunk, i - 1, prescription_id)))

DoAddPrescription(prescription_id, text_chunks, metadata, fail_at) ==
    LET call == [NoCall EXCEPT !.op = "add_prescription", !.texts = text_chunks,
                               !.metadata_list = <<metadata>>,
                               !.caller_metadata = <<metadata>>,
                               !.prescription_id = Some(prescription_id)]
        data == LoadVectors(None)
        loop == AddPrescriptionLoop(1, text_chunks, metadata, prescription_id,
                                    Ids(data.vectors), LoopStart(fail_at))
        built == loop.new_vectors
        caller == IF built = <<>> THEN metadata
                  ELSE CallerMetadataAfter(metadata, built[Len(built)].metadata)
    IN  IF EmbeddingsMissing
        THEN /\ last' = [call EXCEPT !.ret = FALSE]
             /\ UNCHANGED files
        ELSE IF data.shape = "bad"
        THEN /\ last' = [call EXCEPT !.raised = "storage"]
             /\ UNCHANGED files
        ELSE /\ files' = Persist(files, data.vectors, loop, None)
             /\ last' = [call EXCEPT !.raised = IF loop.raised THEN "embed" ELSE "none",
                                     !.ret = ~loop.raised,
                                     !.embed_calls = loop.embed_calls,
                                     !.caller_metadata = <<caller>>,
                                     !.appended = IF loop.raised THEN <<>>
                                                  ELSE loop.new_vectors]

AddPrescription ==
    /\ last.op = "init"
    /\ \E prescription_id \in PrescriptionIds, text_chunks \in Batches,
          metadata \in Metas :
          \E fail_at \in {0, Len(text_chunks)} :
            DoAddPrescription(prescription_id, text_chunks, metadata, fail_at)
    /\ TotalVectors(files') <= MaxVectors
    /\ UNCHANGED <<embeddings, added, writers>>
    /\ UNCHANGED nonStore

\* ------------------------------------------------------------------ search
Dot(v1, v2) == v1[1] * v2[1] + v1[2] * v2[2]

\* np.linalg.norm, for vectors whose norm is an integer
Norm(v) == CHOOSE n \in 0..Dot(v, v) : n * n = Dot(v, v)

\* The zero-norm guard left out: the division is made whatever the norms are.
CosineSimilarity_Unguarded(vec1, vec2) ==
    [num |-> Dot(vec1, vec2), den |-> Norm(vec1) * Norm(vec2)]

\* _cosine_similarity
CosineSimilarity(vec1, vec2) ==
    LET dot_product == Dot(vec1, vec2)
        norm1 == Norm(vec1)
        norm2 == Norm(vec2)
    IN  IF norm1 = 0 \/ norm2 = 0 THEN [num |-> 0, den |-> 1]
        ELSE [num |-> dot_product, den |-> norm1 * norm2]

\* float comparison of two scores
ScoreLess(a, b) == a.num * b.den < b.num * a.den

\* vectors = [v for v in vectors if v["metadata"].get("prescription_id") == prescription_id]
\* under `if prescription_id:`
FilterVectors(vectors, prescription_id) ==
    IF Truthy(prescription_id)
    THEN SelectSeq(vectors, LAMBDA v : v.metadata.prescription_id = prescription_id)
    ELSE vectors

Scored(vectors, query_embedding) ==
    [i \in 1..Len(vectors) |->
        [id |-> vectors[i].id,
         score |-> CosineSimilarity(query_embedding, vectors[i].embedding),
         metadata |-> vectors[i].metadata]]

\* An unstable sort: r goes before the entries with its own score.
RECURSIVE InsertDescending_BeforeEqual(_, _)
InsertDescending_BeforeEqual(sorted, r) ==
    IF sorted = <<>> THEN <<r>>
    ELSE IF ~ScoreLess(r.score, Head(sorted).score) THEN <<r>> \o sorted
    ELSE <<Head(sorted)>> \o InsertDescending_BeforeEqual(Tail(sorted), r)

\* Insert r into a list sorted by descending score, after every entry whose
\* score is not less than r's: list.sort is stable, also with reverse=True.
RECURSIVE InsertDescending(_, _)
InsertDescending(sorted, r) ==
    IF sorted = <<>> THEN <<r>>
    ELSE IF ScoreLess(Head(sorted).score, r.score) THEN <<r>> \o sorted
    ELSE <<Head(sorted)>> \o InsertDescending(Tail(sorted), r)

RECURSIVE SortFrom(_, _, _)
SortFrom(results, i, sorted) ==
    IF i > Len(results) THEN sorted
    ELSE SortFrom(results, i + 1, InsertDescending(sorted, results[i]))

\* The sort left out: the results stay in collection order.
SortDescending_Unsorted(results) == results

\* results.sort(key=lambda x: x["score"], reverse=True)
SortDescending(results) == SortFrom(results, 1, <<>>)

\* results[:top_k], with Python's meaning of a negative bound
SliceTo(results, top_k) ==
    LET n == Len(results)
        stop == IF top_k >= 0 THEN (IF top_k < n THEN top_k ELSE n)
                ELSE (IF n + top_k > 0 THEN n + top_k ELSE 0)
    IN  SubSeq(results, 1, stop)

\* A load that creates the file it did not find.
FilesAfterLoad_Created(fs, namespace) ==
    IF fs[GetStoragePath(namespace)].state = "absent"
    THEN SaveVectors(fs, <<>>, namespace)
    ELSE fs

\* The files after search's `data = self._load_vectors(namespace)`: the file
\* is opened for reading, and search has no other file access.
FilesAfterLoad(fs, namespace) == fs

DoSearch(query, prescription_id, namespace, top_k, fails) ==
    LET call == [NoCall EXCEPT !.op = "search", !.query = query,
                               !.prescription_id = prescription_id,
                               !.namespace = namespace, !.top_k = top_k]
        data == LoadVectors(namespace)
        vectors == FilterVectors(data.vectors, prescription_id)
        results == SortDescending(Scored(vectors, EmbedQuery(query)))
    IN  /\ last' = IF EmbeddingsMissing THEN call
                   ELSE IF fails
                   THEN \* embed_query raised before anything else was read
                        [NoCall EXCEPT !.op = "search", !.query = query,
                                       !.raised = "embed", !.embed_calls = <<query>>]
                   ELSE IF data.shape = "bad"
                   THEN [call EXCEPT !.raised = "storage", !.embed_calls = <<query>>]
                   ELSE [call EXCEPT !.ret = TRUE, !.embed_calls = <<query>>,
                                     !.matches = SliceTo(results, top_k)]
        /\ files' = IF EmbeddingsMissing \/ fails THEN files
                    ELSE FilesAfterLoad(files, namespace)

Search ==
    /\ last.op = "init"
    /\ \E query \in Queries, prescription_id \in SearchFilters,
          namespace \in SearchNamespaces, top_k \in TopKs, fails \in BOOLEAN :
            DoSearch(query, prescription_id, namespace, top_k, fails)
    /\ UNCHANGED <<embeddings, added, writers>>
    /\ UNCHANGED nonStore

\* The caller takes the outcome of the call and is idle again.
Return ==
    /\ last.op # "init"
    /\ last' = NoCall
    /\ UNCHANGED <<embeddings, files, added, writers>>
    /\ UNCHANGED nonStore

Next == AddTexts \/ AddPrescription \/ Search \/ Return

Spec == Init /\ [][Next]_vars

\* ------------------------------------------------------ concurrent writers
\* Two writers (threads or processes) each make one add_texts or
\* add_prescription call on the same storage_dir.  A call is four steps: the
\* guard and _load_vectors; the loop over the texts; open(path, 'w'), which
\* truncates the file; json.dump and close, which complete it.  The writers
\* bring different texts and different prescription ids.
WriterText(w) == IF w = 1 THEN "take 1 tablet daily" ELSE "avoid alcohol"

WriterBatches(w) == SeqsUpTo({WriterText(w)}, MaxBatch) \ {<<>>}

WriterPrescriptionId(w) == IF w = 1 THEN "P1" ELSE "P2"

\* lines 71-76 of add_texts, 108-112 of add_prescription
Begin(w, op, texts, metadata_list, prescription_id, namespace) ==
    LET call == [IdleWriter EXCEPT !.op = op, !.texts = texts,
                                   !.metadata_list = metadata_list,
                                   !.prescription_id = prescription_id,
                                   !.namespace = namespace]
        data == LoadVectors(namespace)
    IN  writers' = [writers EXCEPT ![w] =
            IF EmbeddingsMissing THEN [call EXCEPT !.pc = "done"]
            ELSE IF data.shape = "bad"
            THEN [call EXCEPT !.pc = "done", !.raised = "storage"]
            ELSE [call EXCEPT !.pc = "loaded", !.vectors = data.vectors]]

WriterBegin(w) ==
    /\ writers[w].pc = "idle"
    /\ \/ \E texts \in WriterBatches(w), metadata_list \in MetaLists,
             namespace \in Namespaces :
               Begin(w, "add_texts", texts, metadata_list, None, namespace)
       \/ \E text_chunks \in WriterBatches(w) :
               Begin(w, "add_prescription", text_chunks, <<EmptyMeta>>,
                     Some(WriterPrescriptionId(w)), None)
    /\ UNCHANGED <<embeddings, files, last, added>>
    /\ UNCHANGED nonStore

\* lines 78-96 of add_texts, 114-135 of add_prescription
WriterEmbed(w) ==
    /\ writers[w].pc = "loaded"
    /\ \E fail_at \in {0, Len(writers[w].texts)} :
          LET me == writers[w]
              loop == IF me.op = "add_texts"
                      THEN AddTextsLoop(1, me.texts, me.metadata_list, me.namespace,
                                        Ids(me.vectors), LoopStart(fail_at))
                      ELSE AddPrescriptionLoop(1, me.texts, me.metadata_list[1],
                                               me.prescription_id[1],
                                               Ids(me.vectors), LoopStart(fail_at))
          IN  writers' = [writers EXCEPT ![w] =
                  IF loop.raised THEN [me EXCEPT !.pc = "done", !.raised = "embed"]
                  ELSE [me EXCEPT !.pc = "embedded",
                                  !.new_vectors = loop.new_vectors]]
    /\ UNCHANGED <<embeddings, files, last, added>>
    /\ UNCHANGED nonStore

\* open(path, 'w') of _save_vectors: the file is empty until json.dump is
\* through, and an empty file does not parse.
WriterOpen(w) ==
    /\ writers[w].pc = "embedded"
    /\ files' = [files EXCEPT ![GetStoragePath(writers[w].namespace)] =
                    [state |-> "garbage", vectors |-> <<>>]]
    /\ writers' = [writers EXCEPT ![w].pc = "writing"]
    /\ UNCHANGED <<embeddings, last, added>>
    /\ UNCHANGED nonStore

\* json.dump(data, f) and the close of the file, then `return True`
WriterDump(w) ==
    /\ writers[w].pc = "writing"
    /\ files' = SaveVectors(files, writers[w].vectors \o writers[w].new_vectors,
                            writers[w].namespace)
    /\ writers' = [writers EXCEPT ![w].pc = "done", ![w].ret = TRUE]
    /\ UNCHANGED <<embeddings, last, added>>
    /\ UNCHANGED nonStore

NextConc ==
    \E w \in Writers :
        WriterBegin(w) \/ WriterEmbed(w) \/ WriterOpen(w) \/ WriterDump(w)

SpecConc == Init /\ [][NextConc]_vars

\* ------------------------------------------- _cosine_similarity on its own
\* The vectors with integer components up to MaxCoord whose norm is an
\* integer: the zero vector, the multiples of the unit vectors, and the
\* (3, 4) family.
Vectors ==
    {v \in [1..2 -> -MaxCoord..MaxCoord] :
        \E n \in 0..2 * MaxCoord : n * n = Dot(v, v)}

\* A store with an embedding capability and no file, and nobody calling it.
StoreIdle ==
    /\ writers = [w \in Writers |-> IdleWriter]
    /\ embeddings = TRUE
    /\ files = [p \in Paths |-> AbsentFile]
    /\ last = NoCall
    /\ added = {}

\* The store idle, and a caller about to call _cosine_similarity(vec1, vec2).
InitCosine ==
    /\ StoreIdle
    /\ AuthIdle
    /\ sessions = <<>>
    /\ messages = <<>>
    /\ mlast = NoMemoryCall
    /\ \E vec1 \in Vectors, vec2 \in Vectors :
          cosine = [NoCosine EXCEPT !.pc = "called", !.vec1 = vec1, !.vec2 = vec2]

\* The call returns its score.
CosineReturn ==
    /\ cosine.pc = "called"
    /\ cosine' = [cosine EXCEPT !.pc = "returned",
                                !.score = <<CosineSimilarity(cosine.vec1, cosine.vec2)>>]
    /\ UNCHANGED <<storeVars, sessions, messages, mlast, authVars>>

NextCosine == CosineReturn

SpecCosine == InitCosine /\ [][NextCosine]_vars

\* ------------------------------------------------ MemoryManager: sessions
\* (src/memory.py)  A session is a record over the keys the program uses; the
\* keys a session may lack (title, filename, details, otc_result) are <<>>
\* when absent.
\* the (user_id, prescription_id) arguments of get_or_create_session
SessionKeys == {<<"alice", "P1">>, <<"alice", "GLOBAL">>, <<"bob", "P1">>}

Titles == {None, Some("Rx March")}

Filenames == {None, Some("rx.pdf")}

\* datetime.utcnow(): the readings of the clock, within one minute
Times == {[second |-> 1, microsecond |-> 0], [second |-> 1, microsecond |-> 5]}

\* datetime.isoformat(), as the characters in which two readings of one
\* minute differ: the last digit of the seconds and, unless the microsecond
\* is 0, "." and the first digit of the microseconds ("0" is character 48,
\* "." is character 46).
IsoFormat(t) ==
    <<48 + t.second>> \o
        (IF t.microsecond = 0 THEN <<>> ELSE <<46, 48 + t.microsecond>>)

\* str(uuid.uuid4()): a value no stored session has
Uuid4(stored) == "uuid-" \o ToString(Len(stored) + 1)

\* the session_id arguments: the first session created, and an unknown id
SessionIdArgs == {Uuid4(<<>>), "uuid-0"}

\* A session of the user alone passes for the session of the pair.
SessionMatches_UserOnly(s, user_id, prescription_id) == s.user_id = user_id

\* s["user_id"] == user_id and s["prescription_id"] == prescription_id
SessionMatches(s, user_id, prescription_id) ==
    s.user_id = user_id /\ s.prescription_id = prescription_id

\* next((s for s in data["sessions"] if ...), None): the index of the first
\* match, 0 for None
ExistingSession(stored, user_id, prescription_id) ==
    LET found == {i \in 1..Len(stored) :
                    SessionMatches(stored[i], user_id, prescription_id)}
    IN  IF found = {} THEN 0
        ELSE CHOOSE i \in found : \A j \in found : i <= j

\* `if title and not existing_session.get("title")`, and the same for
\* filename and details
FillMissing(old, given) == IF Truthy(given) /\ ~Truthy(old) THEN given ELSE old

\* `if title: new_session["title"] = title`
IfGiven(given) == IF Truthy(given) THEN given ELSE None

NewSession(session_id, user_id, prescription_id, title, filename, details, now) ==
    [session_id |-> session_id, user_id |-> user_id,
     prescription_id |-> prescription_id, summary |-> "",
     created_at |-> IsoFormat(now), last_active |-> IsoFormat(now),
     title |-> IfGiven(title), filename |-> IfGiven(filename),
     details |-> IfGiven(details), otc_result |-> None]

\* get_or_create_session; the two clock readings of a new session are the
\* same reading.
GetOrCreateSession ==
    /\ mlast.op = "init"
    /\ \E key \in SessionKeys, title \in Titles, filename \in Filenames,
          now \in Times :
          LET user_id == key[1]
              prescription_id == key[2]
              details == None
              i == ExistingSession(sessions, user_id, prescription_id)
              session_id == Uuid4(sessions)
              call == [NoMemoryCall EXCEPT !.op = "get_or_create_session",
                                           !.user_id = user_id,
                                           !.prescription_id = prescription_id]
          IN  IF i # 0
              THEN /\ sessions' = [sessions EXCEPT
                                     ![i].title = FillMissing(@, title),
                                     ![i].filename = FillMissing(@, filename),
                                     ![i].details = FillMissing(@, details)]
                   /\ mlast' = [call EXCEPT !.ret = Some(sessions[i].session_id)]
              ELSE /\ sessions' = Append(sessions,
                                     NewSession(session_id, user_id, prescription_id,
                                                title, filename, details, now))
                   /\ mlast' = [call EXCEPT !.ret = Some(session_id)]
    /\ UNCHANGED <<storeVars, cosine, authVars, messages>>

\* `for session in data["sessions"]: if session["session_id"] == session_id:
\* ...; break`: the index of the session the loop changes, 0 for none
SessionWithId(stored, session_id) ==
    LET found == {i \in 1..Len(stored) : stored[i].session_id = session_id}
    IN  IF found = {} THEN 0
        ELSE CHOOSE i \in found : \A j \in found : i <= j

\* the body of update_last_active
TouchLastActive(stored, session_id, now) ==
    LET i == SessionWithId(stored, session_id)
    IN  IF i = 0 THEN stored
        ELSE [stored EXCEPT ![i].last_active = IsoFormat(now)]

\* update_summary
UpdateSummary ==
    /\ mlast.op = "init"
    /\ \E session_id \in SessionIdArgs, now \in Times :
          LET i == SessionWithId(sessions, session_id)
          IN  /\ sessions' = IF i = 0 THEN sessions
                             ELSE [sessions EXCEPT
                                     ![i].summary = "patient takes one tablet daily",
                                     ![i].last_active = IsoFormat(now)]
              /\ mlast' = [NoMemoryCall EXCEPT !.op = "update_summary",
                                               !.session_id = session_id]
    /\ UNCHANGED <<storeVars, cosine, authVars, messages>>

\* update_last_active
UpdateLastActive ==
    /\ mlast.op = "init"
    /\ \E session_id \in SessionIdArgs, now \in Times :
          /\ sessions' = TouchLastActive(sessions, session_id, now)
          /\ mlast' = [NoMemoryCall EXCEPT !.op = "update_last_active",
                                           !.session_id = session_id]
    /\ UNCHANGED <<storeVars, cosine, authVars, messages>>

\* save_otc_result
SaveOtcResult ==
    /\ mlast.op = "init"
    /\ \E session_id \in SessionIdArgs :
          LET i == SessionWithId(sessions, session_id)
          IN  /\ sessions' = IF i = 0 THEN sessions
                             ELSE [sessions EXCEPT
                                     ![i].otc_result = Some("no interaction found")]
              /\ mlast' = [NoMemoryCall EXCEPT !.op = "save_otc_result",
                                               !.session_id = session_id]
    /\ UNCHANGED <<storeVars, cosine, authVars, messages>>

\* The caller takes the outcome of the MemoryManager call and is idle again.
MemoryReturn ==
    /\ mlast.op # "init"
    /\ mlast' = NoMemoryCall
    /\ UNCHANGED <<storeVars, cosine, authVars, sessions, messages>>

\* MemoryManager() on an empty data directory: _ensure_data_files has written
\* both files with empty lists.
InitMemory ==
    /\ StoreIdle
    /\ AuthIdle
    /\ cosine = NoCosine
    /\ sessions = <<>>
    /\ messages = <<>>
    /\ mlast = NoMemoryCall

\* The calls that write sessions.json.  For sessions.json an add_message call
\* is its update_last_active call.
NextSessions ==
    GetOrCreateSession \/ UpdateSummary \/ UpdateLastActive \/ SaveOtcResult
        \/ MemoryReturn

SpecSessions == InitMemory /\ [][NextSessions]_vars

\* ------------------------------------------------ MemoryManager: messages
\* the session_id arguments of add_message and get_history
MessageSessionIds == {"uuid-1", "uuid-2"}

Roles == {"user", "assistant"}

Limits == -1..MaxLimit

\* a < b for two strings (sequences of characters), as Python compares them
RECURSIVE StrLess(_, _)
StrLess(a, b) ==
    IF b = <<>> THEN FALSE
    ELSE IF a = <<>> THEN TRUE
    ELSE IF a[1] # b[1] THEN a[1] < b[1]
    ELSE StrLess(Tail(a), Tail(b))

\* add_message: the append to messages.json, then update_last_active with a
\* later reading of the clock
AddMessage ==
    /\ mlast.op = "init"
    /\ Len(messages) < MaxMessages
    /\ \E session_id \in MessageSessionIds, role \in Roles, now \in Times,
          later \in Times :
          /\ messages' = Append(messages,
                             [session_id |-> session_id, role |-> role,
                              content |-> "is it safe with alcohol?",
                              timestamp |-> IsoFormat(now)])
          /\ sessions' = TouchLastActive(sessions, session_id, later)
          /\ mlast' = [NoMemoryCall EXCEPT !.op = "add_message",
                                           !.session_id = session_id]
    /\ UNCHANGED <<storeVars, cosine, authVars>>

\* Insert m into a list sorted by ascending timestamp, after every entry
\* whose timestamp is not greater than m's: list.sort is stable.
RECURSIVE InsertByTimestamp(_, _)
InsertByTimestamp(sorted, m) ==
    IF sorted = <<>> THEN <<m>>
    ELSE IF StrLess(m.timestamp, Head(sorted).timestamp) THEN <<m>> \o sorted
    ELSE <<Head(sorted)>> \o InsertByTimestamp(Tail(sorted), m)

RECURSIVE SortByTimestampFrom(_, _, _)
SortByTimestampFrom(msgs, i, sorted) ==
    IF i > Len(msgs) THEN sorted
    ELSE SortByTimestampFrom(msgs, i + 1, InsertByTimestamp(sorted, msgs[i]))

\* session_messages.sort(key=lambda x: x["timestamp"])
SortByTimestamp(msgs) == SortByTimestampFrom(msgs, 1, <<>>)

\* session_messages[-limit:], with Python's meaning of the bound: -0 is 0,
\* the start of the list.
SliceLast(msgs, limit) ==
    LET n == Len(msgs)
        start == IF limit > 0 THEN (IF n - limit > 0 THEN n - limit ELSE 0)
                 ELSE (IF -limit < n THEN -limit ELSE n)
    IN  SubSeq(msgs, start + 1, n)

\* get_history
GetHistory ==
    /\ mlast.op = "init"
    /\ \E session_id \in MessageSessionIds, limit \in Limits :
          LET session_messages ==
                  SelectSeq(messages, LAMBDA m : m.session_id = session_id)
          IN  mlast' = [NoMemoryCall EXCEPT
                          !.op = "get_history", !.session_id = session_id,
                          !.limit = limit,
                          !.history = SliceLast(SortByTimestamp(session_messages),
                                                limit)]
    /\ UNCHANGED <<storeVars, cosine, authVars, sessions, messages>>

\* A MemoryManager whose sessions.json holds no session, or the first
\* session created, and whose messages.json holds no message.
InitMessages ==
    /\ StoreIdle
    /\ AuthIdle
    /\ cosine = NoCosine
    /\ \/ sessions = <<>>
       \/ \E now \in Times :
             sessions = <<NewSession(Uuid4(<<>>), "alice", "P1", None, None, None,
                                     now)>>
    /\ messages = <<>>
    /\ mlast = NoMemoryCall

NextMessages == AddMessage \/ GetHistory \/ MemoryReturn

SpecMessages == InitMessages /\ [][NextMessages]_vars

\* ------------------------------------------------------------- AuthManager
\* (src/auth.py)
Usernames == {"alice", "Alice", "bob"}

Passwords == {"tablet-1", "tablet-2"}

\* bcrypt.gensalt(): a random salt
Salts == {"salt-a", "salt-b"}

\* bcrypt.hashpw(password, salt): the hash carries its salt, and is the same
\* for the same password and salt only.
HashPw(password, salt) == [salt |-> salt, digest |-> <<password, salt>>]

\* bcrypt.checkpw(password, hashed): hash the password with the salt of the
\* stored hash and compare.
CheckPw(password, hashed) == HashPw(password, hashed.salt) = hashed

\* The check for a stored username left out.
UsernameExists_Unchecked(stored, username) == FALSE

\* any(user["username"] == username for user in data["users"])
UsernameExists(stored, username) ==
    \E i \in 1..Len(stored) : stored[i].username = username

\* register_user
RegisterUser ==
    /\ alast.op = "init"
    /\ \E username \in Usernames, password \in Passwords, salt \in Salts,
          now \in Times :
          LET call == [NoAuthCall EXCEPT !.op = "register_user",
                                         !.username = username,
                                         !.password = password]
          IN  IF UsernameExists(users, username)
              THEN /\ alast' = [call EXCEPT !.ret = FALSE,
                                            !.message = "Username already exists."]
                   /\ UNCHANGED <<users, registered>>
              ELSE /\ users' = Append(users,
                                  [username |-> username,
                                   password_hash |-> HashPw(password, salt),
                                   created_at |-> IsoFormat(now)])
                   /\ alast' = [call EXCEPT !.ret = TRUE,
                                            !.message = "User registered successfully."]
                   /\ registered' = registered \cup {<<username, password>>}
    /\ UNCHANGED <<storeVars, cosine, sessions, messages, mlast>>

\* login_user
LoginUser ==
    /\ alast.op = "init"
    /\ \E username \in Usernames, password \in Passwords :
          LET call == [NoAuthCall EXCEPT !.op = "login_user",
                                         !.username = username,
                                         !.password = password]
              found == {i \in 1..Len(users) : users[i].username = username}
              user == users[CHOOSE i \in found : \A j \in found : i <= j]
          IN  alast' =
                IF found = {}
                THEN [call EXCEPT !.ret = FALSE,
                                  !.message = "Invalid username or password."]
                ELSE IF CheckPw(password, user.password_hash)
                THEN [call EXCEPT !.ret = TRUE, !.message = "Login successful."]
                ELSE [call EXCEPT !.ret = FALSE,
                                  !.message = "Invalid username or password."]
    /\ UNCHANGED <<storeVars, cosine, sessions, messages, mlast, users, registered>>

\* The caller takes the outcome of the AuthManager call and is idle again.
AuthReturn ==
    /\ alast.op # "init"
    /\ alast' = NoAuthCall
    /\ UNCHANGED <<storeVars, cosine, sessions, messages, mlast, users, registered>>

InitAuth ==
    /\ StoreIdle
    /\ AuthIdle
    /\ cosine = NoCosine
    /\ sessions = <<>>
    /\ messages = <<>>
    /\ mlast = NoMemoryCall

NextAuth == RegisterUser \/ LoginUser \/ AuthReturn

SpecAuth == InitAuth /\ [][NextAuth]_vars

\* ------------------------------------------------------------------ claims
\* The records of the collection a namespace argument names, as a call sees
\* them after a successful load.
Collection(fs, namespace) == fs[GetStoragePath(namespace)].vectors

IsAdd(call) == call.op \in {"add_texts", "add_prescription"}

\* C1: after any sequence of add_texts and add_prescription calls, no
\* collection holds two records with the same id.
C1_NoDuplicateIds ==
    \A p \in Paths :
        \A i, j \in 1..Len(files[p].vectors) :
            i # j => files[p].vectors[i].id # files[p].vectors[j].id

\* C2: a second add_texts call with the arguments of the first, which
\* returned true, leaves a collection with one record per derived id, appends
\* nothing, leaves the collection as the first call left it, and returns true.
C2_SecondCallIdempotent ==
    [][(/\ embeddings
        /\ last.op = "add_texts" /\ last.raised = "none" /\ last.ret
        /\ last'.op = "add_texts"
        /\ last'.texts = last.texts
        /\ last'.metadata_list = last.metadata_list
        /\ last'.namespace = last.namespace)
       => LET after == Collection(files', last'.namespace)
          IN  /\ last'.raised = "none"
              /\ last'.ret
              /\ last'.appended = <<>>
              /\ after = Collection(files, last.namespace)
              /\ \A k \in 1..Len(last.texts) :
                    Cardinality({i \in 1..Len(after) :
                        after[i].id = TextVectorId(last.namespace, last.texts[k])}) = 1
      ]_vars

\* C3: a record add_texts stored under a namespace string is returned only by
\* a search against that same namespace string, never by a search against
\* another namespace string or against the absent namespace.
C3_NamespaceIsolation ==
    (last.op = "search" /\ last.raised = "none")
    => \A i \in 1..Len(last.matches) :
          \A g \in added :
              g.id = last.matches[i].id => last.namespace = Some(g.namespace)

\* C4: without an embedding capability add_texts and add_prescription return
\* false, search returns an empty sequence, none of them raises and no file
\* changes.
C4_GracefulDegradation ==
    [][(~embeddings /\ last'.op # "init")
       => /\ files' = files
          /\ last'.raised = "none"
          /\ last'.ret = FALSE
          /\ last'.matches = <<>>
          /\ last'.embed_calls = <<>>
      ]_vars

C4_Witness ==
    /\ ~embeddings
    /\ last.op = "add_texts"
    /\ Len(last.texts) = 2
    /\ last.ret = FALSE
    /\ \E p \in Paths : files[p].state = "garbage"

\* The filtered collection a search call ranks, with the score of each record.
Candidates(call) ==
    Scored(FilterVectors(Collection(files, call.namespace), call.prescription_id),
           EmbedQuery(call.query))

\* C5: the result of search is in non-increasing score order, is made of
\* records of the filtered collection (each at most as often as it occurs
\* there), holds min(top_k, n) of them when top_k >= 0, and its i-th record has
\* fewer than i records of the filtered collection scoring strictly higher:
\* no record left out scores higher than a returned one.
C5_TopKOrdering ==
    (last.op = "search" /\ last.raised = "none" /\ embeddings)
    => LET m == last.matches
           c == Candidates(last)
       IN  /\ \A i, j \in 1..Len(m) : i < j => ~ScoreLess(m[i].score, m[j].score)
           /\ \A i \in 1..Len(m) :
                 Cardinality({k \in 1..Len(m) : m[k] = m[i]})
                    <= Cardinality({k \in 1..Len(c) : c[k] = m[i]})
           /\ \A i \in 1..Len(m) :
                 Cardinality({k \in 1..Len(c) : ScoreLess(m[i].score, c[k].score)}) < i
           /\ last.top_k >= 0 =>
                 Len(m) = IF last.top_k < Len(c) THEN last.top_k ELSE Len(c)

C5_Witness ==
    /\ last.op = "search" /\ last.raised = "none" /\ embeddings
    /\ last.top_k = 1
    /\ Len(Candidates(last)) = 2
    /\ ScoreLess(Candidates(last)[1].score, Candidates(last)[2].score)
    /\ Len(last.matches) = 1
    /\ last.matches[1] = Candidates(last)[2]

\* C6: when a prescription_id argument is given to search, every returned
\* record has exactly that metadata.prescription_id, and every record of the
\* collection with that prescription_id is ranked.
C6_FilterCorrectness ==
    (last.op = "search" /\ last.raised = "none" /\ embeddings
        /\ last.prescription_id # None)
    => /\ \A i \in 1..Len(last.matches) :
             last.matches[i].metadata.prescription_id = last.prescription_id
       /\ LET all == Collection(files, last.namespace)
              c == Candidates(last)
          IN  Cardinality({k \in 1..Len(c) :
                    c[k].metadata.prescription_id = last.prescription_id})
              = Cardinality({i \in 1..Len(all) :
                    all[i].metadata.prescription_id = last.prescription_id})

\* C7: when embed_query raises inside add_texts or add_prescription, the call
\* raises and every file is what it was before the call.
C7_AllOrNothing ==
    [][(IsAdd(last') /\ last'.raised = "embed")
       => /\ files' = files
          /\ last'.ret = FALSE
          /\ last'.appended = <<>>
      ]_vars

C7_Witness ==
    /\ last.op = "add_texts"
    /\ last.raised = "embed"
    /\ Len(last.embed_calls) = 2
    /\ Len(Collection(files, last.namespace)) = 1

\* C8: two writers on different namespaces that both returned true never lose
\* each other's records: each finds its new records in its collection.  (On
\* one namespace a writer's records can be lost: C8_LostUpdate.)
C8_DifferentNamespacesKeepRecords ==
    \A w, v \in Writers :
        (/\ w # v
         /\ writers[w].pc = "done" /\ writers[w].ret
         /\ writers[v].pc = "done" /\ writers[v].ret
         /\ writers[w].namespace # writers[v].namespace)
        => \A i \in 1..Len(writers[w].new_vectors) :
              \E k \in 1..Len(Collection(files, writers[w].namespace)) :
                  Collection(files, writers[w].namespace)[k] = writers[w].new_vectors[i]

\* Both writers wrote the same namespace and returned true, and the records
\* of one of them are not in the collection.
C8_LostUpdate ==
    \E w, v \in Writers :
        /\ w # v
        /\ writers[w].pc = "done" /\ writers[w].ret
        /\ writers[v].pc = "done" /\ writers[v].ret
        /\ writers[w].namespace = writers[v].namespace
        /\ writers[w].op = "add_texts" /\ writers[v].op = "add_texts"
        /\ writers[w].new_vectors # <<>>
        /\ writers[v].new_vectors # <<>>
        /\ Ids(writers[w].new_vectors)
              \cap Ids(Collection(files, writers[w].namespace)) = {}

\* C9: whatever the state of a namespace's file (absent, unparseable, or
\* parseable without a "vectors" list), no call raises because of it.
C9_ReadFailuresNotPropagated ==
    last.raised # "storage"

\* C10: add_prescription identifies a chunk by "{prescription_id}_{index}":
\* a call that does not raise returns true, keeps every stored record as it
\* is, makes one embedding call per index whose id is not yet stored and none
\* for the others, and appends exactly the records of those indices, in order.
C10_PositionalIdentity ==
    [][(last'.op = "add_prescription" /\ embeddings /\ last'.raised = "none")
       => LET old == Collection(files, None)
              new == Collection(files', None)
              pid == last'.prescription_id[1]
              chunks == last'.texts
              idOf(i) == pid \o "_" \o ToString(i - 1)
              fresh == {i \in 1..Len(chunks) : idOf(i) \notin Ids(old)}
          IN  /\ last'.ret
              /\ Len(new) = Len(old) + Cardinality(fresh)
              /\ SubSeq(new, 1, Len(old)) = old
              /\ Len(last'.embed_calls) = Cardinality(fresh)
              /\ \A k \in Len(old) + 1..Len(new) :
                    \E i \in fresh :
                        /\ new[k].id = idOf(i)
                        /\ new[k].metadata.text = Some(chunks[i])
                        /\ new[k].embedding = EmbedQuery(chunks[i])
                        /\ Cardinality({j \in fresh : j < i}) = k - Len(old) - 1
      ]_vars

\* A re-ingestion with an edited chunk at a stored index: the stored text stays.
C10_Witness ==
    /\ last.op = "add_prescription" /\ last.raised = "none" /\ last.ret
    /\ Len(last.texts) = 2
    /\ Len(last.appended) = 1
    /\ LET stored == Collection(files, None)
       IN  /\ Len(stored) = 2
           /\ stored[1].id = "P1_0"
           /\ stored[1].metadata.text # Some(last.texts[1])
           /\ stored[2].id = "P1_1"

\* C11: every record add_prescription appends has metadata text = its chunk,
\* chunk_id = the chunk's index and prescription_id = the argument, whatever
\* the caller's dict holds under those keys; the caller's other key is kept,
\* and the caller's dict is after the call what it was before.
C11_ChunkMetadataMerge ==
    (last.op = "add_prescription" /\ embeddings /\ last.raised = "none")
    => LET stored == Collection(files, None)
           new == last.appended
           given == last.metadata_list[1]
       IN  /\ Len(new) <= Len(stored)
           /\ SubSeq(stored, Len(stored) - Len(new) + 1, Len(stored)) = new
           /\ \A k \in 1..Len(new) :
                 \E i \in 1..Len(last.texts) :
                     /\ new[k].id = ChunkVectorId(last.prescription_id[1], i - 1)
                     /\ new[k].metadata.text = Some(last.texts[i])
                     /\ new[k].metadata.chunk_id = Some(i - 1)
                     /\ new[k].metadata.prescription_id = last.prescription_id
                     /\ new[k].metadata.filename = given.filename
           /\ last.caller_metadata = last.metadata_list

\* The caller's dict holds other values under all three keys, and a second
\* chunk was appended.
C11_Witness ==
    /\ last.op = "add_prescription" /\ embeddings /\ last.raised = "none"
    /\ last.metadata_list = <<MetaP2>>
    /\ Len(last.appended) = 2
    /\ last.appended[2].metadata =
          [prescription_id |-> Some("P1"), text |-> Some(last.texts[2]),
           chunk_id |-> Some(1), filename |-> Some("rx.pdf")]

\* C12: _cosine_similarity returns exactly 0 when a vector has norm zero, and
\* never divides by zero; orthogonal non-zero vectors score 0 and a non-zero
\* vector scores 1 against itself.
C12_CosineEdgePolicy ==
    cosine.pc = "returned"
    => LET score == cosine.score[1]
           zero1 == Dot(cosine.vec1, cosine.vec1) = 0
           zero2 == Dot(cosine.vec2, cosine.vec2) = 0
       IN  /\ score.den > 0
           /\ (zero1 \/ zero2) => score = [num |-> 0, den |-> 1]
           /\ (~zero1 /\ ~zero2 /\ Dot(cosine.vec1, cosine.vec2) = 0)
                 => score.num = 0
           /\ (~zero1 /\ cosine.vec1 = cosine.vec2) => score.num = score.den

\* A zero vector was scored against a non-zero one.
C12_Witness ==
    /\ cosine.pc = "returned"
    /\ cosine.vec1 = <<0, 0>>
    /\ cosine.vec2 = <<3, 4>>
    /\ cosine.score = <<[num |-> 0, den |-> 1]>>

\* C13: over any sequence of add_texts, add_prescription and search calls,
\* the records a file held before a call are a prefix of the records it holds
\* after the call: none is removed, moved or changed.
C13_AppendOnly ==
    [][\A p \in Paths :
          LET before == files[p].vectors
              after == files'[p].vectors
          IN  /\ Len(before) <= Len(after)
              /\ SubSeq(after, 1, Len(before)) = before
      ]_vars

\* An add_texts call has appended a record to a collection that held one,
\* and the record it held is still the first.
C13_Witness ==
    /\ last.op = "add_texts" /\ last.raised = "none" /\ last.ret
    /\ Len(last.appended) = 1
    /\ LET stored == Collection(files, last.namespace)
       IN  /\ Len(stored) = 2
           /\ stored[2] = last.appended[1]
           /\ stored[1].id # stored[2].id

\* C14: for every integer top_k the result of search is the first top_k
\* entries of the ranked filtered collection: min(top_k, n) records of the n
\* it holds, none when top_k is 0 or less, never more than top_k.
C14_ResultSize ==
    (last.op = "search" /\ last.raised = "none" /\ embeddings)
    => LET ranked == SortDescending(Candidates(last))
           n == Len(ranked)
           size == IF last.top_k <= 0 THEN 0
                   ELSE IF last.top_k < n THEN last.top_k ELSE n
       IN  /\ Len(last.matches) = size
           /\ last.matches = SubSeq(ranked, 1, size)

\* C15: the result of search is fixed by the collection and the query
\* embedding: the record at position p of the filtered collection comes after
\* exactly the records that score higher and the records of equal score
\* stored before it, so records of equal score keep their stored order.
C15_StableTieOrder ==
    (last.op = "search" /\ last.raised = "none" /\ embeddings)
    => LET c == Candidates(last)
           m == last.matches
           place(p) == 1 + Cardinality({q \in 1..Len(c) :
                              \/ ScoreLess(c[p].score, c[q].score)
                              \/ (c[q].score = c[p].score /\ q < p)})
       IN  \A p \in 1..Len(c) : place(p) <= Len(m) => m[place(p)] = c[p]

\* Two different records of equal score were returned, in their stored order.
C15_Witness ==
    /\ last.op = "search" /\ last.raised = "none" /\ embeddings
    /\ Len(last.matches) = 2
    /\ last.matches[1].score = last.matches[2].score
    /\ last.matches[1].id # last.matches[2].id
    /\ last.matches[1] = Candidates(last)[1]
    /\ last.matches[2] = Candidates(last)[2]

\* C16: an add_texts call that returns makes one embed_query call for each
\* text whose id was not in the collection before the call and none for a
\* text whose id was there, and as many embed_query calls as it adds distinct
\* ids to the collection.
C16_EmbedOncePerNewId ==
    (last.op = "add_texts" /\ embeddings /\ last.raised = "none")
    => LET stored == Collection(files, last.namespace)
           before == SubSeq(stored, 1, Len(stored) - Len(last.appended))
           calls == last.embed_calls
           callsFor(t) == Cardinality({k \in 1..Len(calls) : calls[k] = t})
       IN  /\ \A i \in 1..Len(last.texts) :
                 callsFor(last.texts[i]) =
                    IF TextVectorId(last.namespace, last.texts[i]) \in Ids(before)
                    THEN 0 ELSE 1
           /\ Len(calls) = Cardinality(Ids(stored) \ Ids(before))

\* C17: a search call, whatever its arguments, its outcome and the state of
\* the files, leaves every file as it was and creates none.
C17_SearchReadOnly ==
    [][last'.op = "search" => files' = files]_vars

\* A search against a namespace without a file has returned nothing.
C17_Witness ==
    /\ last.op = "search" /\ last.raised = "none" /\ embeddings
    /\ last.ret
    /\ files[GetStoragePath(last.namespace)].state = "absent"
    /\ TotalVectors(files) > 0

\* A session list with at most one session per (user_id, prescription_id).
OnePerPair(stored) ==
    \A i, j \in 1..Len(stored) :
        (stored[i].user_id = stored[j].user_id
            /\ stored[i].prescription_id = stored[j].prescription_id) => i = j

\* C18: after every MemoryManager call the stored sessions hold at most one
\* session per (user_id, prescription_id), and every session keeps its place,
\* its session_id and its pair; get_or_create_session returns the session_id
\* of a stored session of its pair, and when a session of the pair was stored
\* before the call it returns that session's id and stores no new session.
C18_GetOrCreate ==
    [][/\ OnePerPair(sessions')
       /\ Len(sessions) <= Len(sessions')
       /\ \A i \in 1..Len(sessions) :
             /\ sessions'[i].session_id = sessions[i].session_id
             /\ sessions'[i].user_id = sessions[i].user_id
             /\ sessions'[i].prescription_id = sessions[i].prescription_id
       /\ mlast'.op = "get_or_create_session"
           => /\ \E i \in 1..Len(sessions') :
                    /\ mlast'.ret = Some(sessions'[i].session_id)
                    /\ sessions'[i].user_id = mlast'.user_id
                    /\ sessions'[i].prescription_id = mlast'.prescription_id
              /\ \A i \in 1..Len(sessions) :
                    (sessions[i].user_id = mlast'.user_id
                        /\ sessions[i].prescription_id = mlast'.prescription_id)
                    => /\ Len(sessions') = Len(sessions)
                       /\ mlast'.ret = Some(sessions[i].session_id)
      ]_vars

\* A repeated get_or_create_session call: three sessions are stored and the
\* call returned the first of them.
C18_Witness ==
    /\ mlast.op = "get_or_create_session"
    /\ Len(sessions) = 3
    /\ mlast.ret = Some(sessions[1].session_id)
    /\ mlast.user_id = sessions[2].user_id

\* C19: after every AuthManager call no two stored users share a username;
\* a register_user call for a stored username returns
\* (False, "Username already exists.") and leaves the stored users as they
\* were; a login_user call with a username and the password it was
\* registered with returns (True, "Login successful.").
C19_UniqueUsernames ==
    [][/\ \A i, j \in 1..Len(users') :
             users'[i].username = users'[j].username => i = j
       /\ (alast'.op = "register_user"
             /\ \E i \in 1..Len(users) : users[i].username = alast'.username)
           => /\ alast'.ret = FALSE
              /\ alast'.message = "Username already exists."
              /\ users' = users
       /\ (alast'.op = "login_user"
             /\ <<alast'.username, alast'.password>> \in registered)
           => /\ alast'.ret = TRUE
              /\ alast'.message = "Login successful."
      ]_vars

\* A stored username was registered again with another password, and the
\* call was refused.
C19_Witness ==
    /\ alast.op = "register_user"
    /\ alast.ret = FALSE
    /\ alast.message = "Username already exists."
    /\ <<alast.username, alast.password>> \notin registered
    /\ \E i \in 1..Len(users) :
          /\ users[i].username = alast.username
          /\ ~CheckPw(alast.password, users[i].password_hash)

\* The clock reading t1 is before the clock reading t2.
Earlier(t1, t2) ==
    \/ t1.second < t2.second
    \/ (t1.second = t2.second /\ t1.microsecond < t2.microsecond)

\* C20: get_history(session_id, limit) with limit >= 0 returns messages
\* stored with that session_id (each at most as often as it is stored), none
\* written before the one returned ahead of it, min(limit, count) of the
\* session's messages, and the i-th from the end has fewer than i messages
\* of the session with a later timestamp: the most recent ones.
C20_RecentHistory ==
    (mlast.op = "get_history" /\ mlast.limit >= 0)
    => LET h == mlast.history
           mine == SelectSeq(messages, LAMBDA m : m.session_id = mlast.session_id)
           n == Len(mine)
       IN  /\ \A k \in 1..Len(h) :
                 /\ h[k].session_id = mlast.session_id
                 /\ Cardinality({i \in 1..Len(h) : h[i] = h[k]})
                       <= Cardinality({i \in 1..n : mine[i] = h[k]})
                 /\ Cardinality({i \in 1..n :
                        StrLess(h[k].timestamp, mine[i].timestamp)}) <= Len(h) - k
           /\ \A i, j \in 1..Len(h) :
                 i < j => \A t1, t2 \in Times :
                             (IsoFormat(t1) = h[i].timestamp
                                /\ IsoFormat(t2) = h[j].timestamp)
                             => ~Earlier(t2, t1)
           /\ Len(h) = IF mlast.limit < n THEN mlast.limit ELSE n
====
